---- MODULE Spec2Model ----
(***************************************************************************)
(* X Engagement Assistant: the rule-based analyzer (lib/ai-analyzer), the  *)
(* chrome.storage.local wrapper (lib/storage) and the content script's     *)
(* processNode pipeline, as state machines.                                *)
(*                                                                         *)
(* A string is a sequence of characters.  An ASCII character is written as *)
(* itself ("a", "A", "%"); any other character is written by its code      *)
(* point ("u4eca").  toLowerCase maps "A".."Z" to "a".."z" and leaves the  *)
(* characters of the tables below (kana, kanji, digits, signs) unchanged.  *)
(***************************************************************************)
EXTENDS Integers, Sequences, FiniteSets, TLC

VARIABLES
  tweet,            \* analyzer harness: the Tweet handed to AIAnalyzer.analyze
  settings,         \* AIAnalyzer.settings (UserSettings)
  result,           \* analyzer harness: the AnalysisResult returned, or NoResult
  stCache,          \* chrome.storage.local 'cache': entries in own-property-key order
  stHistory,        \* chrome.storage.local 'history'
  stStatistics,     \* chrome.storage.local 'statistics'
  stSettings,       \* chrome.storage.local 'settings'
  processedTweets,  \* XEngagementAssistant.processedTweets
  injected,         \* elements carrying the class xea-injected
  badge,            \* element -> analysis shown in its score badge, or NoResult
  procs,            \* processNode invocations past their synchronous prefix
  calls,            \* number of processNode invocations started so far
  analyzeLog,       \* ghost: post ids passed to AIAnalyzer.analyze, in call order
  statLog,          \* ghost: post ids whose statistics write was issued, in order
  added,            \* ghost: history actions handed to addHistory, in call order
  deduped,          \* ghost: post ids for which processNode returned at the duplicate check
  startTotal,       \* ghost: statistics.totalAnalyzed when this page session began
  liked,            \* post ids whose like button shows the liked state
  observed,         \* ghost: elements handed to processNode so far
  form,             \* the popup's settings inputs, or NoForm while the popup is closed
  responses         \* background worker: sendResponse calls, in order

vars == << tweet, settings, result, stCache, stHistory, stStatistics, stSettings,
           processedTweets, injected, badge, procs, calls, analyzeLog, statLog, added,
           deduped, startTotal, liked, observed, form, responses >>

NoResult == [none |-> TRUE]

\* The popup is closed: there are no inputs
NoForm == [closed |-> TRUE]

----------------------------------------------------------------------------
(* Strings *)

Uppers == << "A","B","C","D","E","F","G","H","I","J","K","L","M",
             "N","O","P","Q","R","S","T","U","V","W","X","Y","Z" >>
Lowers == << "a","b","c","d","e","f","g","h","i","j","k","l","m",
             "n","o","p","q","r","s","t","u","v","w","x","y","z" >>

LowerOf == [c \in {Uppers[i] : i \in 1..Len(Uppers)} |->
              Lowers[CHOOSE i \in 1..Len(Uppers) : Uppers[i] = c]]

LowerChar(c) == IF c \in DOMAIN LowerOf THEN LowerOf[c] ELSE c

\* String.prototype.toLowerCase
toLowerCase(s) == [i \in 1..Len(s) |-> LowerChar(s[i])]

\* String.prototype.includes: p occurs in s as a contiguous substring
includes(s, p) ==
  \/ Len(p) = 0
  \/ \E i \in 1..(Len(s) - Len(p) + 1) :
        /\ s[i] = p[1]
        /\ \A j \in 2..Len(p) : s[i + j - 1] = p[j]

\* Array.prototype.filter(pred).length for a sequence of patterns
RECURSIVE CountIncluded(_, _)
CountIncluded(content, words) ==
  IF words = << >> THEN 0
  ELSE (IF includes(content, Head(words)) THEN 1 ELSE 0)
       + CountIncluded(content, Tail(words))

\* The number of occurrences of the character c in s
CountChar(s, c) == Cardinality({ i \in 1..Len(s) : s[i] = c })

\* The one character of the range U+1F600..U+1F64F that the inputs use; it
\* is two UTF-16 code units long.
Emoji == "u1f600"

\* String.prototype.length: UTF-16 code units
StrLength(s) == Len(s) + CountChar(s, Emoji)

RECURSIVE Repeat(_, _)
Repeat(s, n) == IF n = 0 THEN << >> ELSE s \o Repeat(s, n - 1)

----------------------------------------------------------------------------
(* Rule tables *)

\* detectSpam's literal patterns, in order: zettai-kasegeru, 100%, ima-sugu, muryou-de-kasegu, kantan-ni-kasegeru, DM-kudasai, rain-tsuika
FixedSpamPatterns ==
  << <<"u7d76", "u5bfe", "u7a3c", "u3052", "u308b">>,
     <<"1", "0", "0", "%">>,
     <<"u4eca", "u3059", "u3050">>,
     <<"u7121", "u6599", "u3067", "u7a3c", "u3050">>,
     <<"u7c21", "u5358", "u306b", "u7a3c", "u3052", "u308b">>,
     <<"D", "M", "u4e0b", "u3055", "u3044">>,
     <<"u30e9", "u30a4", "u30f3", "u8ffd", "u52a0">> >>

\* DEFAULT_SETTINGS.keywords: AI, Claude, ChatGPT, LLM, kikai-gakushuu, kaihatsu
DefaultKeywords ==
  << <<"A", "I">>,
     <<"C", "l", "a", "u", "d", "e">>,
     <<"C", "h", "a", "t", "G", "P", "T">>,
     <<"L", "L", "M">>,
     <<"u6a5f", "u68b0", "u5b66", "u7fd2">>,
     <<"u958b", "u767a">> >>

\* DEFAULT_SETTINGS.excludeKeywords: supamu, sagi, ayashii, kasegeru
DefaultExcludeKeywords ==
  << <<"u30b9", "u30d1", "u30e0">>,
     <<"u8a50", "u6b3a">>,
     <<"u602a", "u3057", "u3044">>,
     <<"u7a3c", "u3052", "u308b">> >>

\* genreKeywords of the genre AI-kaihatsu
GenreKeys_AI ==
  << <<"a", "i">>,
     <<"c", "l", "a", "u", "d", "e">>,
     <<"c", "h", "a", "t", "g", "p", "t">>,
     <<"l", "l", "m">>,
     <<"u6a5f", "u68b0", "u5b66", "u7fd2">>,
     <<"m", "l">>,
     <<"d", "e", "e", "p", " ", "l", "e", "a", "r", "n", "i", "n", "g">> >>

\* genreKeywords of the genre puroguramingu
GenreKeys_Programming ==
  << <<"u30d7", "u30ed", "u30b0", "u30e9", "u30df", "u30f3", "u30b0">>,
     <<"u30b3", "u30fc", "u30c7", "u30a3", "u30f3", "u30b0">>,
     <<"j", "a", "v", "a", "s", "c", "r", "i", "p", "t">>,
     <<"p", "y", "t", "h", "o", "n">>,
     <<"t", "y", "p", "e", "s", "c", "r", "i", "p", "t">>,
     <<"u958b", "u767a">> >>

\* genreKeywords of the genre tekunorojii
GenreKeys_Technology ==
  << <<"u30c6", "u30af", "u30ce", "u30ed", "u30b8", "u30fc">>,
     <<"t", "e", "c", "h">>,
     <<"u6280", "u8853">>,
     <<"u30b9", "u30bf", "u30fc", "u30c8", "u30a2", "u30c3", "u30d7">>,
     <<"s", "a", "a", "s">> >>

\* genreKeywords of the genre maaketingu
GenreKeys_Marketing ==
  << <<"u30de", "u30fc", "u30b1", "u30c6", "u30a3", "u30f3", "u30b0">>,
     <<"s", "e", "o">>,
     <<"s", "n", "s">>,
     <<"u96c6", "u5ba2">>,
     <<"u30d6", "u30e9", "u30f3", "u30c7", "u30a3", "u30f3", "u30b0">> >>

\* genreKeywords of the genre bijinesu
GenreKeys_Business ==
  << <<"u30d3", "u30b8", "u30cd", "u30b9">>,
     <<"u8d77", "u696d">>,
     <<"u7d4c", "u55b6">>,
     <<"u58f2", "u4e0a">>,
     <<"u30de", "u30cd", "u30bf", "u30a4", "u30ba">> >>

\* analyzeSentiment's positive words
positiveWords ==
  << <<"u826f", "u3044">>,
     <<"u7d20", "u6674", "u3089", "u3057", "u3044">>,
     <<"u4fbf", "u5229">>,
     <<"u6700", "u9ad8">>,
     <<"u6210", "u529f">>,
     <<"u6539", "u5584">>,
     <<"u52b9", "u679c", "u7684">>,
     <<"u512a", "u308c", "u305f">> >>

\* analyzeSentiment's negative words
negativeWords ==
  << <<"u60aa", "u3044">>,
     <<"u554f", "u984c">>,
     <<"u30d0", "u30b0">>,
     <<"u30a8", "u30e9", "u30fc">>,
     <<"u5931", "u6557">>,
     <<"u56f0", "u96e3">>,
     <<"u96e3", "u3057", "u3044">> >>

\* The genre labels, ASCII names for: AI-kaihatsu, puroguramingu, tekunorojii,
\* maaketingu, bijinesu (the table's order), sonota ("other") and supamu.
GenreOrder == << "AI_dev", "programming", "technology", "marketing", "business" >>
GenreOther == "other"
GenreSpam  == "spam"

genreKeywords ==
  [g \in {GenreOrder[i] : i \in 1..Len(GenreOrder)} |->
     CASE g = "AI_dev"      -> GenreKeys_AI
       [] g = "programming" -> GenreKeys_Programming
       [] g = "technology"  -> GenreKeys_Technology
       [] g = "marketing"   -> GenreKeys_Marketing
       [] g = "business"    -> GenreKeys_Business]

\* DEFAULT_SETTINGS (types): the fields the content script and analyzer read
DEFAULT_SETTINGS ==
  [ targetGenres    |-> << "AI_dev", "technology", "programming" >>,
    keywords        |-> DefaultKeywords,
    excludeKeywords |-> DefaultExcludeKeywords,
    minScore        |-> 70,
    minFollowers    |-> 50,
    language        |-> "ja",
    aiProvider      |-> "local" ]

----------------------------------------------------------------------------
(* AIAnalyzer *)

MapLower(words) == [i \in 1..Len(words) |-> toLowerCase(words[i])]

\* detectSpam: the excluded keywords are lower-cased, the literals are not
spamPatterns(s) == MapLower(s.excludeKeywords) \o FixedSpamPatterns

detectSpam(content, s) ==
  \E i \in 1..Len(spamPatterns(s)) : includes(content, spamPatterns(s)[i])

\* extractKeywords: the settings keywords (as written) whose lower case occurs
RECURSIVE extractKeywords(_, _)
extractKeywords(content, keywords) ==
  IF keywords = << >> THEN << >>
  ELSE (IF includes(content, toLowerCase(Head(keywords)))
          THEN << Head(keywords) >> ELSE << >>)
       \o extractKeywords(content, Tail(keywords))

Min(a, b) == IF a < b THEN a ELSE b
Max(a, b) == IF a > b THEN a ELSE b

\* assessQuality, in tenths (0.5 base is 5)
hasUrl(content) ==
  \/ includes(content, << "h","t","t","p",":","/","/" >>)
  \/ includes(content, << "h","t","t","p","s",":","/","/" >>)

assessQuality(content) ==
  LET length    == StrLength(content)
      hashtags  == CountChar(content, "#")
      emojiCount == CountChar(content, Emoji)
      lenAdj    == IF length >= 50 /\ length <= 280 THEN 2
                   ELSE IF length < 20 THEN -3 ELSE 0
      urlAdj    == IF hasUrl(content) THEN 1 ELSE 0
      tagAdj    == IF hashtags >= 1 /\ hashtags <= 3 THEN 1
                   ELSE IF hashtags > 5 THEN -2 ELSE 0
      emojiAdj  == IF emojiCount > 10 THEN -2 ELSE 0
  IN  Max(0, Min(10, 5 + lenAdj + urlAdj + tagAdj + emojiAdj))

\* calculateRelevance: an exact fraction [num, den]
\*   matchRatio * 0.7 + qualityScore * 0.3 = (70*m + 3*q*n) / (100*n)
\* for m matched of n keywords and quality q tenths.
calculateRelevance(content, matched, s) ==
  IF Len(matched) = 0 THEN [num |-> 0, den |-> 1]
  ELSE LET m == Len(matched)
           n == Len(s.keywords)
           q == assessQuality(content)
           num == 70 * m + 3 * q * n
           den == 100 * n
       IN  IF num > den THEN [num |-> 1, den |-> 1] ELSE [num |-> num, den |-> den]

\* key.toLowerCase() for every key of the table
loweredGenreKeys == [g \in DOMAIN genreKeywords |-> MapLower(genreKeywords[g])]

\* classifyGenre: one pass over the table in order, replacing on strictly more
RECURSIVE classifyFrom(_, _, _, _)
classifyFrom(content, i, bestGenre, maxMatches) ==
  IF i > Len(GenreOrder) THEN bestGenre
  ELSE LET genre   == GenreOrder[i]
           matches == CountIncluded(content, loweredGenreKeys[genre])
       IN  IF matches > maxMatches
             THEN classifyFrom(content, i + 1, genre, matches)
             ELSE classifyFrom(content, i + 1, bestGenre, maxMatches)

\* classifyGenre replacing on "at least as many": the last of several tied
\* genres wins
RECURSIVE classifyFromLast(_, _, _, _)
classifyFromLast(content, i, bestGenre, maxMatches) ==
  IF i > Len(GenreOrder) THEN bestGenre
  ELSE LET genre   == GenreOrder[i]
           matches == CountIncluded(content, loweredGenreKeys[genre])
       IN  IF matches >= maxMatches /\ matches > 0
             THEN classifyFromLast(content, i + 1, genre, matches)
             ELSE classifyFromLast(content, i + 1, bestGenre, maxMatches)

classifyGenreLastWins(content) == classifyFromLast(content, 1, GenreOther, 0)

classifyGenre(content) == classifyFrom(content, 1, GenreOther, 0)

analyzeSentiment(content) ==
  LET positiveCount == CountIncluded(content, positiveWords)
      negativeCount == CountIncluded(content, negativeWords)
  IN  IF positiveCount > negativeCount THEN "positive"
      ELSE IF negativeCount > positiveCount THEN "negative"
      ELSE "neutral"

\* Math.round of the fraction num/den (den > 0): floor(x + 0.5)
MathRound(num, den) == (2 * num + den) \div (2 * den)

\* calculateScore without the upper limit of its normalisation
clampScoreNoCeiling(x) == Max(0, x)

\* The final normalisation of calculateScore
clampScore(x) == Max(0, Min(100, x))

\* calculateScore: relevance*100, +-10 for sentiment, plus
\* min(20, (likes + 2*retweets)/10), over the common denominator 10*den
calculateScore(tw, relevance, sentiment) ==
  LET den      == 10 * relevance.den
      base     == 1000 * relevance.num
      sentAdj  == IF sentiment = "positive" THEN 100 * relevance.den
                  ELSE IF sentiment = "negative" THEN -100 * relevance.den
                  ELSE 0
      engage   == Min(200, tw.likes + tw.retweets * 2) * relevance.den
  IN  clampScore(MathRound(base + sentAdj + engage, den))

\* generateReason: the template chosen and the value it interpolates
generateReason(score, keywords, genre) ==
  IF score >= 80 THEN << "high", keywords >>
  ELSE IF score >= 60 THEN << "relevant", genre >>
  ELSE IF score >= 40 THEN << "partial" >>
  ELSE << "low" >>

SpamResult ==
  [ score     |-> 0,
    genre     |-> GenreSpam,
    keywords  |-> << >>,
    relevance |-> [num |-> 0, den |-> 1],
    sentiment |-> "negative",
    isSpam    |-> TRUE,
    reason    |-> << "spam" >> ]

analyze(tw, s) ==
  LET content == toLowerCase(tw.content)
  IN  IF detectSpam(content, s) THEN SpamResult
      ELSE LET matchedKeywords == extractKeywords(content, s.keywords)
               relevance == calculateRelevance(content, matchedKeywords, s)
               genre     == classifyGenre(content)
               sentiment == analyzeSentiment(content)
               score     == calculateScore(tw, relevance, sentiment)
           IN  [ score     |-> score,
                 genre     |-> genre,
                 keywords  |-> matchedKeywords,
                 relevance |-> relevance,
                 sentiment |-> sentiment,
                 isSpam    |-> FALSE,
                 reason    |-> generateReason(score, matchedKeywords, genre) ]

----------------------------------------------------------------------------
(* chrome.storage.local and StorageManager *)

\* A key of chrome.storage.local: holding no value, or holding v
Absent == [has |-> FALSE]
Stored(v) == [has |-> TRUE, value |-> v]

\* A post id is a string.  [num |-> TRUE, n |-> k] is the canonical decimal
\* string of k < 2^32 - 1 (an array index as a property key, "42");
\* [num |-> FALSE, n |-> k] is the k-th string of any other shape (a 19-digit
\* status id, "tweet-<ms>-<random>").
IsArrayIndex(id) == id.num

HISTORY_LIMIT == 1000
CACHE_LIMIT == 500

\* Array.prototype.slice(-n)
SliceLast(s, n) == IF Len(s) <= n THEN s ELSE SubSeq(s, Len(s) - n + 1, Len(s))

\* result[KEYS.X] || fallback
OrDefault(stored, fallback) == IF stored.has THEN stored.value ELSE fallback

\* An object used as a map is the sequence of its entries in own-property-key
\* order: array-index keys ascending, then the other keys in insertion order.
HasKey(obj, id) == \E i \in 1..Len(obj) : obj[i].id = id

\* cache[tweetId] || null
Lookup(obj, id) ==
  IF HasKey(obj, id)
    THEN obj[CHOOSE i \in 1..Len(obj) : obj[i].id = id].analysis
    ELSE NoResult

\* Where a new key lands among the entries of obj
InsertPosition(obj, id) ==
  IF IsArrayIndex(id)
    THEN Cardinality({i \in 1..Len(obj) : IsArrayIndex(obj[i].id) /\ obj[i].id.n < id.n}) + 1
    ELSE Len(obj) + 1

\* cache[tweetId] = analysis
Assign(obj, id, a) ==
  IF HasKey(obj, id)
    THEN [i \in 1..Len(obj) |-> IF obj[i].id = id THEN [id |-> id, analysis |-> a] ELSE obj[i]]
    ELSE LET k == InsertPosition(obj, id)
         IN  SubSeq(obj, 1, k - 1) \o << [id |-> id, analysis |-> a] >> \o SubSeq(obj, k, Len(obj))

\* cacheAnalysis without its size limit
trimCacheNever(cache) == cache

\* cacheAnalysis between its get and its set: the object handed to set
trimCache(cache) ==
  IF Len(cache) > CACHE_LIMIT THEN SliceLast(cache, CACHE_LIMIT) ELSE cache

\* addHistory keeping the oldest entries, slice(0, 1000)
trimHistoryOldest(history) ==
  IF Len(history) <= HISTORY_LIMIT THEN history ELSE SubSeq(history, 1, HISTORY_LIMIT)

\* addHistory between its get and its set
trimHistory(history) == SliceLast(history, HISTORY_LIMIT)

AllGenres == {GenreOrder[i] : i \in 1..Len(GenreOrder)} \cup {GenreOther, GenreSpam}

\* DEFAULT_STATISTICS; genreDistribution[g] = 0 stands for an absent key g
\* (every reader takes "|| 0"); dailyActions and lastUpdated are never read.
DEFAULT_STATISTICS ==
  [ totalAnalyzed     |-> 0,
    totalLiked        |-> 0,
    totalRetweeted    |-> 0,
    averageScore      |-> 0,
    genreDistribution |-> [g \in AllGenres |-> 0] ]

\* { ...stats, ...updates }
Merge(stats, updates) ==
  [f \in DOMAIN stats |-> IF f \in DOMAIN updates THEN updates[f] ELSE stats[f]]

\* The average that XEngagementAssistant.updateStatistics stores
nextAverage(stats, score) ==
  MathRound(stats.averageScore * stats.totalAnalyzed + score, stats.totalAnalyzed + 1)

\* Updates that count the analysis but leave the genre distribution alone
statisticsUpdatesTotalOnly(stats, analysis) ==
  [ totalAnalyzed     |-> stats.totalAnalyzed + 1,
    averageScore      |-> nextAverage(stats, analysis.score) ]

\* XEngagementAssistant.updateStatistics between its getStatistics and its
\* call of storage.updateStatistics: the Partial<Statistics> it passes
statisticsUpdates(stats, analysis) ==
  [ totalAnalyzed     |-> stats.totalAnalyzed + 1,
    averageScore      |-> nextAverage(stats, analysis.score),
    genreDistribution |-> [stats.genreDistribution EXCEPT
                             ![analysis.genre] = stats.genreDistribution[analysis.genre] + 1] ]

----------------------------------------------------------------------------
(* The page: elements and what TweetExtractor reads from them *)

PostA == [num |-> FALSE, n |-> 1]   \* a status id from a link, "/status/<19 digits>"
PostB == [num |-> TRUE,  n |-> 42]  \* a data-tweet-id attribute, "42"

NoElement == "none"
Elements == {"e1", "e2", "e3", "e4"}

\* e1 and e2 show the same post (the feed re-rendered it), e3 another post,
\* e4 a post element whose text selectors match nothing.
Dom ==
  [ e \in Elements |->
      CASE e = "e1" -> [ isTweet |-> TRUE, id |-> PostA,
                         content |-> << "A","I"," ","u6700","u9ad8" >>,
                         likes |-> 200, retweets |-> 3 ]
        [] e = "e2" -> [ isTweet |-> TRUE, id |-> PostA,
                         content |-> << "A","I"," ","u6700","u9ad8" >>,
                         likes |-> 200, retweets |-> 3 ]
        [] e = "e3" -> [ isTweet |-> TRUE, id |-> PostB,
                         content |-> << "u8d77","u696d" >>,
                         likes |-> 10, retweets |-> 0 ]
        [] e = "e4" -> [ isTweet |-> TRUE, id |-> PostB,
                         content |-> << >>,
                         likes |-> 0, retweets |-> 0 ] ]

\* TweetExtractor.isTweetElement
isTweetElement(e) == Dom[e].isTweet

\* TweetExtractor.extractTweet: null when the id or the content is empty
extractTweet(e) ==
  IF Dom[e].content = << >> THEN NoResult
  ELSE [ id |-> Dom[e].id, content |-> Dom[e].content,
         likes |-> Dom[e].likes, retweets |-> Dom[e].retweets ]

NoTweet == [ id |-> [num |-> FALSE, n |-> 0], content |-> << >>, likes |-> 0, retweets |-> 0 ]
NoAction == [none |-> TRUE]

----------------------------------------------------------------------------
(* Asynchronous invocations.  An invocation is suspended at an await of a    *)
(* chrome.storage.local call; one step performs that call and runs the code  *)
(* up to the next await.                                                     *)

MaxCalls == 4

Invocation(op, el, tw, pc, analysis, action) ==
  [ op |-> op, el |-> el, tweet |-> tw, pc |-> pc,
    analysis |-> analysis, action |-> action, local |-> << >> ]

Terminal == {"done", "failed", "unloaded"}
Active(p) == procs[p].pc \notin Terminal
Idle == \A p \in DOMAIN procs : ~Active(p)

Spawn(inv) == procs' = [p \in DOMAIN procs \cup {calls + 1} |->
                          IF p = calls + 1 THEN inv ELSE procs[p]]

Goto(p, pc) == procs' = [procs EXCEPT ![p].pc = pc]
GotoWith(p, pc, local) == procs' = [procs EXCEPT ![p].pc = pc, ![p].local = local]

\* UIInjector.isInjected
isInjected(e) == e \in injected

\* A duplicate check that never finds the id
neverProcessed(ids, id) == FALSE

\* processedTweets.has(tweet.id)
alreadyProcessed(ids, id) == id \in ids

analyzerVars == << tweet, settings, result >>
storageVars  == << stCache, stHistory, stStatistics, stSettings >>
domVars      == << injected, badge, liked >>
ghostVars    == << analyzeLog, statLog, added, deduped, startTotal, observed >>
remoteVars   == << form, responses >>

\* processNode from its entry to its first await (getCachedAnalysis)
ProcessNode(e) ==
  /\ calls < MaxCalls
  /\ calls' = calls + 1
  /\ observed' = observed \cup {e}
  /\ IF ~isTweetElement(e) \/ isInjected(e) \/ extractTweet(e) = NoResult
       THEN UNCHANGED << processedTweets, procs, deduped >>
       ELSE IF alreadyProcessed(processedTweets, extractTweet(e).id)
         THEN /\ deduped' = deduped \cup {extractTweet(e).id}
              /\ UNCHANGED << processedTweets, procs >>
         ELSE /\ processedTweets' = processedTweets \cup {extractTweet(e).id}
              /\ Spawn(Invocation("processNode", e, extractTweet(e), "getCached",
                                  NoResult, NoAction))
              /\ UNCHANGED deduped
  /\ UNCHANGED << remoteVars, analyzerVars, storageVars, domVars, analyzeLog, statLog, added, startTotal >>

\* getCachedAnalysis resolves; on a miss analyze runs and cacheAnalysis is called
GetCached(p) ==
  /\ procs[p].pc = "getCached"
  /\ LET cached == Lookup(OrDefault(stCache, << >>), procs[p].tweet.id)
     IN  IF cached # NoResult
           THEN /\ procs' = [procs EXCEPT ![p].pc = "inject", ![p].analysis = cached]
                /\ UNCHANGED analyzeLog
           ELSE /\ procs' = [procs EXCEPT ![p].pc = "cacheGet",
                                          ![p].analysis = analyze(procs[p].tweet, settings)]
                /\ analyzeLog' = Append(analyzeLog, procs[p].tweet.id)
  /\ UNCHANGED << remoteVars, analyzerVars, storageVars, processedTweets, domVars, calls, statLog, added, deduped, startTotal, observed >>

\* cacheAnalysis: get resolves, the entry is assigned and the object trimmed
CacheGet(p) ==
  /\ procs[p].pc = "cacheGet"
  /\ GotoWith(p, "cacheSet",
              trimCache(Assign(OrDefault(stCache, << >>), procs[p].tweet.id, procs[p].analysis)))
  /\ UNCHANGED << remoteVars, analyzerVars, storageVars, processedTweets, domVars, calls, ghostVars >>

\* cacheAnalysis: set resolves
CacheSet(p) ==
  /\ procs[p].pc = "cacheSet"
  /\ stCache' = Stored(procs[p].local)
  /\ Goto(p, IF procs[p].op = "processNode" THEN "statsGet" ELSE "done")
  /\ UNCHANGED << remoteVars, analyzerVars, stHistory, stStatistics, stSettings, processedTweets, domVars,
                  calls, ghostVars >>

\* XEngagementAssistant.updateStatistics: getStatistics resolves
StatsGet(p) ==
  /\ procs[p].pc = "statsGet"
  /\ GotoWith(p, "statsMerge",
              statisticsUpdates(OrDefault(stStatistics, DEFAULT_STATISTICS), procs[p].analysis))
  /\ UNCHANGED << remoteVars, analyzerVars, storageVars, processedTweets, domVars, calls, ghostVars >>

\* StorageManager.updateStatistics: getStatistics resolves, the updates are merged
StatsMerge(p) ==
  /\ procs[p].pc = "statsMerge"
  /\ GotoWith(p, "statsSet",
              Merge(OrDefault(stStatistics, DEFAULT_STATISTICS), procs[p].local))
  /\ UNCHANGED << remoteVars, analyzerVars, storageVars, processedTweets, domVars, calls, ghostVars >>

\* StorageManager.updateStatistics: set resolves
StatsSet(p) ==
  /\ procs[p].pc = "statsSet"
  /\ stStatistics' = Stored(procs[p].local)
  /\ statLog' = IF procs[p].op = "handleLike" THEN statLog
                 ELSE Append(statLog, [id |-> procs[p].tweet.id, score |-> procs[p].analysis.score])
  /\ Goto(p, IF procs[p].op = "processNode" THEN "inject" ELSE "done")
  /\ UNCHANGED << remoteVars, analyzerVars, stCache, stHistory, stSettings, processedTweets, domVars,
                  calls, analyzeLog, added, deduped, startTotal, observed >>

\* processNode after its last await: injectUI and markAsInjected
Inject(p) ==
  /\ procs[p].pc = "inject"
  /\ badge' = [badge EXCEPT ![procs[p].el] = procs[p].analysis]
  /\ injected' = injected \cup {procs[p].el}
  /\ Goto(p, "done")
  /\ UNCHANGED << remoteVars, analyzerVars, storageVars, processedTweets, liked, calls, ghostVars >>

AwaitingStorage == {"getCached", "cacheGet", "cacheSet", "statsGet", "statsMerge", "statsSet"}

\* A catch that also forgets the post id, so that the post is tried again
RejectAndForget(p) ==
  /\ procs[p].op = "processNode"
  /\ procs[p].pc \in AwaitingStorage
  /\ Goto(p, "failed")
  /\ processedTweets' = processedTweets \ {procs[p].tweet.id}
  /\ UNCHANGED << remoteVars, analyzerVars, storageVars, domVars, calls, ghostVars >>

\* A chrome.storage.local call of processNode rejects: the catch logs and returns

Reject(p) ==
  /\ procs[p].op = "processNode"
  /\ procs[p].pc \in AwaitingStorage
  /\ Goto(p, "failed")
  /\ UNCHANGED << remoteVars, analyzerVars, storageVars, processedTweets, domVars, calls, ghostVars >>

\* addHistory: getHistory resolves, the action is pushed and the array sliced
HistoryGet(p) ==
  /\ procs[p].pc = "historyGet"
  /\ GotoWith(p, "historySet",
              trimHistory(Append(OrDefault(stHistory, << >>), procs[p].action)))
  /\ UNCHANGED << remoteVars, analyzerVars, storageVars, processedTweets, domVars, calls, ghostVars >>

\* addHistory: set resolves
HistorySet(p) ==
  /\ procs[p].pc = "historySet"
  /\ stHistory' = Stored(procs[p].local)
  /\ Goto(p, IF procs[p].op = "handleLike" THEN "likeStatsGet" ELSE "done")
  /\ UNCHANGED << remoteVars, analyzerVars, stCache, stStatistics, stSettings, processedTweets, domVars,
                  calls, ghostVars >>

----------------------------------------------------------------------------
(* Initial states *)

AnalyzerIdle ==
  /\ tweet = NoTweet
  /\ settings = DEFAULT_SETTINGS
  /\ result = NoResult

\* A new content-script instance, after initialize, on a page where no post is
\* liked; the popup is closed and the background worker has answered nothing
FreshScript ==
  /\ processedTweets = {}
  /\ injected = {}
  /\ badge = [e \in Elements |-> NoResult]
  /\ procs = << >>
  /\ calls = 0
  /\ analyzeLog = << >>
  /\ statLog = << >>
  /\ deduped = {}
  /\ liked = {}
  /\ observed = {}
  /\ form = NoForm
  /\ responses = << >>

\* Storage after onInstalled: only the settings are stored
FreshStorage ==
  /\ stCache = Absent
  /\ stHistory = Absent
  /\ stStatistics = Absent
  /\ stSettings = Stored(DEFAULT_SETTINGS)
  /\ startTotal = 0

\* Storage left by an earlier page session that analysed post A and nothing else
AnalysisA == analyze(extractTweet("e1"), DEFAULT_SETTINGS)

EarlierSessionStorage ==
  /\ stCache = Stored(<< [id |-> PostA, analysis |-> AnalysisA] >>)
  /\ stHistory = Absent
  /\ stStatistics = Stored(Merge(DEFAULT_STATISTICS, statisticsUpdates(DEFAULT_STATISTICS, AnalysisA)))
  /\ stSettings = Stored(DEFAULT_SETTINGS)
  /\ startTotal = 1

----------------------------------------------------------------------------
(* The content script: processNode invocations from the initial scan and the *)
(* mutation observer, none awaited                                           *)

Init ==
  /\ AnalyzerIdle
  /\ FreshScript
  /\ added = << >>
  /\ (FreshStorage \/ EarlierSessionStorage)

Next ==
  \/ \E e \in Elements : ProcessNode(e)
  \/ \E p \in DOMAIN procs : GetCached(p)
  \/ \E p \in DOMAIN procs : CacheGet(p)
  \/ \E p \in DOMAIN procs : CacheSet(p)
  \/ \E p \in DOMAIN procs : StatsGet(p)
  \/ \E p \in DOMAIN procs : StatsMerge(p)
  \/ \E p \in DOMAIN procs : StatsSet(p)
  \/ \E p \in DOMAIN procs : Inject(p)
  \/ \E p \in DOMAIN procs : Reject(p)

Spec == Init /\ [][Next]_vars

----------------------------------------------------------------------------
(* AIAnalyzer.analyze on its own: the inputs are drawn in the initial state  *)

MaxTokens == 2

\* The pieces the input texts are built from
Vocabulary ==
  { << "A", "I" >>,                                   \* AI
    << "s", "e", "o", " ", "s", "n", "s" >>,          \* seo sns
    << "D", "M", "u4e0b", "u3055", "u3044" >>,        \* DM-kudasai, as in the pattern list
    << "u4eca", "u3059", "u3050" >>,                  \* ima-sugu
    << "u7a3c", "u3052", "u308b" >>,                  \* kasegeru
    << "N", "g" >>,                                   \* Ng
    << "u6700", "u9ad8" >>,                           \* saikou (positive)
    << "u30d0", "u30b0" >>,                           \* bagu (negative)
    << "u958b", "u767a" >>,                           \* kaihatsu
    << "#" >>,
    Repeat(<< "#" >>, 6),
    << "h", "t", "t", "p", "s", ":", "/", "/" >>,
    Repeat(<< Emoji >>, 11),
    Repeat(<< "x" >>, 50) }

RECURSIVE TextsUpTo(_)
TextsUpTo(k) ==
  IF k = 0 THEN { << >> }
  ELSE TextsUpTo(k - 1) \cup { t \o v : t \in TextsUpTo(k - 1), v \in Vocabulary }

EngagementInputs == { << 0, 0 >>, << 37, 0 >>, << 15, 120 >> }

TweetInputs ==
  { [ id |-> PostA, content |-> t, likes |-> e[1], retweets |-> e[2] ] :
      t \in TextsUpTo(MaxTokens) \ { << >> }, e \in EngagementInputs }

SettingsInputs ==
  { DEFAULT_SETTINGS,
    [DEFAULT_SETTINGS EXCEPT !.keywords = << >>, !.excludeKeywords = << >>],
    [DEFAULT_SETTINGS EXCEPT !.keywords = << << "A", "I" >> >>,
                             !.excludeKeywords = << << "N", "G" >> >>] }

InitAnalyze ==
  /\ tweet \in TweetInputs
  /\ settings \in SettingsInputs
  /\ result = NoResult
  /\ FreshScript
  /\ added = << >>
  /\ FreshStorage

Analyze ==
  /\ result = NoResult
  /\ result' = analyze(tweet, settings)
  /\ UNCHANGED << remoteVars, tweet, settings, storageVars, processedTweets, domVars, procs, calls, ghostVars >>

NextAnalyze == Analyze

SpecAnalyze == InitAnalyze /\ [][NextAnalyze]_vars

----------------------------------------------------------------------------
(* Properties of AIAnalyzer.analyze (checked under SpecAnalyze) *)

\* C1: every analysis that analyze returns has a score that is an integer in
\* 0..100, whatever the text, the non-negative counts and the settings.
C1_ScoreInRange ==
  result # NoResult => result.score \in 0..100

\* C1 witness: a non-spam analysis whose raw score exceeded 100 was returned
\* (a keyword matched and the post is long and well liked).
C1_Witness ==
  /\ result # NoResult
  /\ ~result.isSpam
  /\ result.score = 100
  /\ result.keywords # << >>

\* The text contains p when letter case is ignored on both sides
IncludesIgnoringCase(text, p) == includes(toLowerCase(text), toLowerCase(p))

ListedSpamEntries(s) ==
  {FixedSpamPatterns[i] : i \in 1..Len(FixedSpamPatterns)}
    \cup {s.excludeKeywords[i] : i \in 1..Len(s.excludeKeywords)}

\* C7: analyze returns the spam result if and only if the text, compared
\* ignoring letter case, contains an entry of the fixed spam pattern list or
\* one of the user's excludeKeywords.
C7_SpamIffListed ==
  result # NoResult =>
    ( (result = SpamResult)
        <=> \E p \in ListedSpamEntries(settings) : IncludesIgnoringCase(tweet.content, p) )

\* The number of the genre's keywords that occur in the (lower-cased) text
KeywordHits(content, genre) ==
  Cardinality({ i \in 1..Len(genreKeywords[genre]) :
                  includes(content, genreKeywords[genre][i]) })

\* C8: for a non-spam post the genre is 'other' exactly when no keyword of any
\* of the five sets occurs; otherwise it is a genre with the maximum number of
\* occurring keywords, and the first such genre in the table's order.
C8_GenreIsFirstMaximum ==
  (result # NoResult /\ ~result.isSpam) =>
    LET content == toLowerCase(tweet.content)
        hits(i) == KeywordHits(content, GenreOrder[i])
    IN  /\ (result.genre = GenreOther) <=> (\A i \in 1..Len(GenreOrder) : hits(i) = 0)
        /\ result.genre # GenreOther =>
              \E i \in 1..Len(GenreOrder) :
                 /\ result.genre = GenreOrder[i]
                 /\ \A j \in 1..Len(GenreOrder) : hits(j) <= hits(i)
                 /\ \A j \in 1..(i - 1) : hits(j) < hits(i)

\* C8 witness: a non-spam analysis of a text in which two genres tie for the
\* maximum number of occurring keywords.
C8_Witness ==
  /\ result # NoResult
  /\ ~result.isSpam
  /\ LET content == toLowerCase(tweet.content)
     IN  \E i, j \in 1..Len(GenreOrder) :
            /\ i < j
            /\ KeywordHits(content, GenreOrder[i]) >= 1
            /\ KeywordHits(content, GenreOrder[i]) = KeywordHits(content, GenreOrder[j])
            /\ \A k \in 1..Len(GenreOrder) :
                  KeywordHits(content, GenreOrder[k]) <= KeywordHits(content, GenreOrder[i])

----------------------------------------------------------------------------
(* Properties of the content script (checked under Spec) *)

Occurrences(log, x) == Cardinality({ i \in 1..Len(log) : log[i] = x })
PostIds == { Dom[e].id : e \in Elements }

\* C2: within one content-script instance a post id is passed to analyze at
\* most once and causes at most one statistics update, for every interleaving
\* of processNode invocations.
C2_AnalyzedAtMostOnce ==
  \A id \in PostIds :
    /\ Occurrences(analyzeLog, id) <= 1
    /\ Cardinality({ i \in 1..Len(statLog) : statLog[i].id = id }) <= 1

\* C2 witness: post A was analysed and counted, and a further processNode
\* invocation for post A was turned away at the duplicate check.
C2_Witness ==
  /\ PostA \in deduped
  /\ Occurrences(analyzeLog, PostA) = 1
  /\ \E i \in 1..Len(statLog) : statLog[i].id = PostA

AllCompleted ==
  /\ DOMAIN procs # {}
  /\ \A p \in DOMAIN procs : procs[p].pc = "done"

\* C3: when concurrent processNode invocations for distinct uncached posts
\* have all completed, the stored totalAnalyzed has grown by exactly the
\* number of posts that were analysed.
C3_CountIsExact ==
  AllCompleted =>
    OrDefault(stStatistics, DEFAULT_STATISTICS).totalAnalyzed = startTotal + Len(analyzeLog)

\* Invocation p can take a step other than a rejection: each step is guarded
\* by p's own position alone
CanStep(p) == procs[p].pc \in AwaitingStorage \cup {"inject"}

\* C10: after a storage call rejected inside processNode (the post id already
\* in processedTweets) no element showing that post carries the injected mark
\* or a badge, no later invocation for that post id got past the duplicate
\* check, and the invocations for other posts can still take their next step
\* and end with their element marked and badged.
C10_FailureSkipsThePost ==
  \A p \in DOMAIN procs :
    /\ procs[p].pc = "failed" =>
         /\ procs[p].tweet.id \in processedTweets
         /\ \A e \in Elements :
               Dom[e].id = procs[p].tweet.id => (e \notin injected /\ badge[e] = NoResult)
         /\ \A q \in DOMAIN procs : q > p => procs[q].tweet.id # procs[p].tweet.id
         /\ Occurrences(analyzeLog, procs[p].tweet.id) <= 1
    /\ Active(p) => CanStep(p)
    /\ procs[p].pc = "done" =>
         (procs[p].el \in injected /\ badge[procs[p].el] = procs[p].analysis)

\* C10 witness: the invocation for post A failed after analysing it, a later
\* invocation for post A was turned away, and the invocation for post B
\* completed and injected its badge.
C10_Witness ==
  \E p, q \in DOMAIN procs :
    /\ procs[p].pc = "failed"
    /\ procs[p].tweet.id = PostA
    /\ Occurrences(analyzeLog, PostA) = 1
    /\ PostA \in deduped
    /\ q > p
    /\ procs[q].pc = "done"
    /\ procs[q].tweet.id = PostB
    /\ procs[q].el \in injected

----------------------------------------------------------------------------
(* StorageManager.addHistory called again and again, each call completing   *)
(* before the next starts                                                    *)

MaxHistoryCalls == 5

\* The entry handleLike builds for post id at the k-th call
HistoryEntry(k, id) ==
  [ id |-> k, tweetId |-> id, action |-> "like",
    score |-> AnalysisA.score, genre |-> AnalysisA.genre ]

\* A history of k entries, as k earlier calls of addHistory left it
PrefilledHistory(k) == [i \in 1..k |-> HistoryEntry(i, PostA)]

InitHistory ==
  /\ AnalyzerIdle
  /\ FreshScript
  /\ stCache = Absent
  /\ stStatistics = Absent
  /\ stSettings = Stored(DEFAULT_SETTINGS)
  /\ startTotal = 0
  /\ \E k \in {0, HISTORY_LIMIT - 2} :
        /\ added = PrefilledHistory(k)
        /\ stHistory = IF k = 0 THEN Absent ELSE Stored(PrefilledHistory(k))

AddHistory(id) ==
  /\ Idle
  /\ calls < MaxHistoryCalls
  /\ calls' = calls + 1
  /\ Spawn(Invocation("addHistory", NoElement, NoTweet, "historyGet", NoResult,
                      HistoryEntry(Len(added) + 1, id)))
  /\ added' = Append(added, HistoryEntry(Len(added) + 1, id))
  /\ UNCHANGED << remoteVars, analyzerVars, storageVars, processedTweets, domVars,
                  analyzeLog, statLog, deduped, startTotal, observed >>

NextHistory ==
  \/ \E id \in {PostA, PostB} : AddHistory(id)
  \/ \E p \in DOMAIN procs : HistoryGet(p)
  \/ \E p \in DOMAIN procs : HistorySet(p)

SpecHistory == InitHistory /\ [][NextHistory]_vars

\* C4: after any sequence of addHistory calls, each completing before the
\* next starts, the stored history has at most 1000 entries and is exactly
\* the last min(n, 1000) of the n actions added, in the order they were added.
C4_HistoryIsLastThousand ==
  (Idle /\ calls > 0) =>
    LET h == OrDefault(stHistory, << >>)
        n == Len(added)
    IN  /\ Len(h) <= 1000
        /\ Len(h) = Min(n, 1000)
        /\ \A i \in 1..Len(h) : h[i] = added[n - Len(h) + i]

\* C4 witness: more than 1000 actions were added and the last call completed.
C4_Witness ==
  /\ Idle
  /\ calls > 0
  /\ Len(added) > HISTORY_LIMIT + 1
  /\ Len(OrDefault(stHistory, << >>)) = HISTORY_LIMIT

----------------------------------------------------------------------------
(* StorageManager.cacheAnalysis called concurrently *)

MaxCacheCalls == 2

\* The k-th post id found in an earlier session's cache (a status id)
EarlierPost(k) == [num |-> FALSE, n |-> 1000 + k]

\* A cache of k entries, as k earlier calls of cacheAnalysis left it
PrefilledCache(k) == [i \in 1..k |-> [id |-> EarlierPost(i), analysis |-> AnalysisA]]

\* The calls made: a new status id, a new short decimal id, and an id the
\* earlier session cached with another analysis
CacheInputs ==
  { << PostA, AnalysisA >>, << PostB, SpamResult >>, << EarlierPost(2), SpamResult >> }

InitCache ==
  /\ AnalyzerIdle
  /\ FreshScript
  /\ added = << >>
  /\ stHistory = Absent
  /\ stStatistics = Absent
  /\ stSettings = Stored(DEFAULT_SETTINGS)
  /\ startTotal = 0
  /\ \E k \in {0, CACHE_LIMIT} :
        stCache = IF k = 0 THEN Absent ELSE Stored(PrefilledCache(k))

CacheAnalysis(id, a) ==
  /\ calls < MaxCacheCalls
  /\ calls' = calls + 1
  /\ Spawn(Invocation("cacheAnalysis", NoElement, [NoTweet EXCEPT !.id = id],
                      "cacheGet", a, NoAction))
  /\ UNCHANGED << remoteVars, analyzerVars, storageVars, processedTweets, domVars, ghostVars >>

NextCache ==
  \/ \E in \in CacheInputs : CacheAnalysis(in[1], in[2])
  \/ \E p \in DOMAIN procs : CacheGet(p)
  \/ \E p \in DOMAIN procs : CacheSet(p)

SpecCache == InitCache /\ [][NextCache]_vars

\* C5: in every state reachable through cacheAnalysis calls, in any
\* interleaving of their get and set steps, the stored cache holds at most
\* 500 entries.
C5_CacheAtMostLimit ==
  Len(OrDefault(stCache, << >>)) <= 500

\* C5 witness: a completed cacheAnalysis call pushed the oldest entry of a
\* full cache out, and the stored cache holds exactly 500 entries.
C5_Witness ==
  /\ \E p \in DOMAIN procs : procs[p].pc = "done"
  /\ Len(OrDefault(stCache, << >>)) = CACHE_LIMIT
  /\ ~HasKey(OrDefault(stCache, << >>), EarlierPost(1))

\* C6: immediately after cacheAnalysis(id, a) completes, getCachedAnalysis(id)
\* returns a, for every post id (short decimal ids included) and also when
\* the cache already held 500 other entries.
C6_WriteIsReadable ==
  [][ \A p \in DOMAIN procs :
        (procs[p].pc = "cacheSet" /\ procs'[p].pc = "done")
          => Lookup(OrDefault(stCache', << >>), procs[p].tweet.id) = procs[p].analysis ]_vars

----------------------------------------------------------------------------
(* XEngagementAssistant.updateStatistics called for one analysis after       *)
(* another                                                                   *)

MaxStatCalls == 4

\* Analyses to record: of post A (e1), of post B (e3) and of a spam post
StatInputs ==
  { AnalysisA, analyze(extractTweet("e3"), DEFAULT_SETTINGS), SpamResult }

InitStats ==
  /\ AnalyzerIdle
  /\ FreshScript
  /\ added = << >>
  /\ FreshStorage

UpdateStatistics(a) ==
  /\ Idle
  /\ calls < MaxStatCalls
  /\ calls' = calls + 1
  /\ Spawn(Invocation("updateStatistics", NoElement, NoTweet, "statsGet", a, NoAction))
  /\ UNCHANGED << remoteVars, analyzerVars, storageVars, processedTweets, domVars, ghostVars >>

NextStats ==
  \/ \E a \in StatInputs : UpdateStatistics(a)
  \/ \E p \in DOMAIN procs : StatsGet(p)
  \/ \E p \in DOMAIN procs : StatsMerge(p)
  \/ \E p \in DOMAIN procs : StatsSet(p)

SpecStats == InitStats /\ [][NextStats]_vars

RECURSIVE SumScores(_)
SumScores(log) == IF log = << >> THEN 0 ELSE Head(log).score + SumScores(Tail(log))

\* C9: after any sequence of analyses recorded one after another, averageScore
\* equals the arithmetic mean of all recorded scores rounded to the nearest
\* integer, and lies in 0..100.
C9_AverageIsMean ==
  (Idle /\ Len(statLog) > 0) =>
    LET stats == OrDefault(stStatistics, DEFAULT_STATISTICS)
    IN  /\ stats.totalAnalyzed = Len(statLog)
        /\ stats.averageScore = MathRound(SumScores(statLog), Len(statLog))
        /\ stats.averageScore \in 0..100

----------------------------------------------------------------------------
(* UIInjector: what injectUI puts on an element, as a function of the        *)
(* analysis                                                                  *)

\* getScoreColor
getScoreColor(score) ==
  IF score >= 80 THEN "#10b981"
  ELSE IF score >= 60 THEN "#3b82f6"
  ELSE IF score >= 40 THEN "#f59e0b"
  ELSE "#6b7280"

\* getStarRating: the number of stars
getStarRating(score) ==
  IF score >= 90 THEN 5
  ELSE IF score >= 75 THEN 4
  ELSE IF score >= 60 THEN 3
  ELSE IF score >= 40 THEN 2
  ELSE 1

\* addScoreBadge: the badge's colour and texts
addScoreBadge(analysis) ==
  [ color  |-> getScoreColor(analysis.score),
    stars  |-> getStarRating(analysis.score),
    score  |-> analysis.score,
    genre  |-> analysis.genre,
    reason |-> analysis.reason ]

\* The score below which addQuickActionButton returns without a button
QuickActionScore == 60

\* addQuickActionButton: TRUE iff a button is inserted
addQuickActionButton(analysis) == ~(analysis.score < QuickActionScore)

\* injectUI
injectUI(analysis) ==
  [ badge  |-> addScoreBadge(analysis),
    button |-> addQuickActionButton(analysis) ]

\* A post processed under given settings: the analysis and the injected UI
processPost(tw, s) ==
  LET analysis == analyze(tw, s)
  IN  [ analysis |-> analysis, ui |-> injectUI(analysis) ]

\* minScore values on both sides of every score that changes the badge or the button
MinScoreInputs == {0, 60, 100}

\* C11: there exist a post and two settings values differing only in minScore
\* for which processing the post (analyze, then addScoreBadge and
\* addQuickActionButton) yields a different analysis result or a different
\* injected UI.  The settings range over the harness's inputs, the analyzer's
\* current settings among them.
C11_MinScoreChangesTheOutcome ==
  \E tw \in TweetInputs, s \in SettingsInputs \cup {settings}, m \in MinScoreInputs :
    processPost(tw, s) # processPost(tw, [s EXCEPT !.minScore = m])

----------------------------------------------------------------------------
(* The background worker: the chrome.runtime.onMessage listener and          *)
(* handleMessage.  A message is an invocation with op "message" that holds   *)
(* the message in its action field.                                          *)

MaxMessages == 2

NoData == [none |-> TRUE]

KnownTypes == {"getSettings", "saveSettings", "getStatistics", "getHistory", "clearData"}

\* Messages sent to the worker: one of each known type, and two of other types
MessageInputs ==
  { [type |-> t, data |-> NoData] : t \in (KnownTypes \ {"saveSettings"}) \cup {"ping", "undefined"} }
    \cup { [type |-> "saveSettings", data |-> [DEFAULT_SETTINGS EXCEPT !.minScore = 90]] }

\* handleMessage falling through to the first case for a type it does not know
handleMessageFallThrough(type) ==
  CASE type = "saveSettings"  -> "msgSaveSettings"
    [] type = "getStatistics" -> "msgGetStatistics"
    [] type = "getHistory"    -> "msgGetHistory"
    [] type = "clearData"     -> "msgClearAll"
    [] OTHER                  -> "msgGetSettings"

\* handleMessage up to its first await: the storage call it waits for, or "throw"
handleMessage(type) ==
  CASE type = "getSettings"   -> "msgGetSettings"
    [] type = "saveSettings"  -> "msgSaveSettings"
    [] type = "getStatistics" -> "msgGetStatistics"
    [] type = "getHistory"    -> "msgGetHistory"
    [] type = "clearData"     -> "msgClearAll"
    [] OTHER                  -> "throw"

\* new Error(`Unknown message type: ${message.type}`).message
UnknownMessageType(type) == << "Unknown message type: ", type >>

Success == [success |-> TRUE]
StorageError == "storage error"

IsMessage(p) == procs[p].op = "message"

\* sendResponse, called from .then (rejected = FALSE) or from .catch
Respond(p, rejected, response) ==
  responses' = Append(responses, [msg |-> p, rejected |-> rejected, response |-> response])

\* The listener runs: handleMessage is called and runs to its first await, or
\* throws, in which case the catch answers in the same task
OnMessage(msg) ==
  /\ calls < MaxCalls
  /\ Cardinality({p \in DOMAIN procs : IsMessage(p)}) < MaxMessages
  /\ calls' = calls + 1
  /\ IF handleMessage(msg.type) = "throw"
       THEN /\ Spawn(Invocation("message", NoElement, NoTweet, "done", NoResult, msg))
            /\ Respond(calls + 1, TRUE, [error |-> UnknownMessageType(msg.type)])
       ELSE /\ Spawn(Invocation("message", NoElement, NoTweet, handleMessage(msg.type),
                                NoResult, msg))
            /\ UNCHANGED responses
  /\ UNCHANGED << form, analyzerVars, storageVars, processedTweets, domVars, ghostVars >>

\* case 'getSettings': getSettings resolves
MsgGetSettings(p) ==
  /\ procs[p].pc = "msgGetSettings"
  /\ Respond(p, FALSE, OrDefault(stSettings, DEFAULT_SETTINGS))
  /\ Goto(p, "done")
  /\ UNCHANGED << form, analyzerVars, storageVars, processedTweets, domVars, calls, ghostVars >>

\* case 'saveSettings': saveSettings(message.data) resolves
MsgSaveSettings(p) ==
  /\ procs[p].pc = "msgSaveSettings"
  /\ stSettings' = Stored(procs[p].action.data)
  /\ Respond(p, FALSE, Success)
  /\ Goto(p, "done")
  /\ UNCHANGED << form, analyzerVars, stCache, stHistory, stStatistics, processedTweets,
                  domVars, calls, ghostVars >>

\* case 'getStatistics': getStatistics resolves
MsgGetStatistics(p) ==
  /\ procs[p].pc = "msgGetStatistics"
  /\ Respond(p, FALSE, OrDefault(stStatistics, DEFAULT_STATISTICS))
  /\ Goto(p, "done")
  /\ UNCHANGED << form, analyzerVars, storageVars, processedTweets, domVars, calls, ghostVars >>

\* case 'getHistory': getHistory resolves
MsgGetHistory(p) ==
  /\ procs[p].pc = "msgGetHistory"
  /\ Respond(p, FALSE, OrDefault(stHistory, << >>))
  /\ Goto(p, "done")
  /\ UNCHANGED << form, analyzerVars, storageVars, processedTweets, domVars, calls, ghostVars >>

\* StorageManager.clearAll: chrome.storage.local.clear()
clearAll ==
  /\ stCache' = Absent
  /\ stHistory' = Absent
  /\ stStatistics' = Absent
  /\ stSettings' = Absent

\* case 'clearData': clearAll resolves, saveSettings(DEFAULT_SETTINGS) is called
MsgClearAll(p) ==
  /\ procs[p].pc = "msgClearAll"
  /\ clearAll
  /\ Goto(p, "msgSaveDefaults")
  /\ UNCHANGED << remoteVars, analyzerVars, processedTweets, domVars, calls, ghostVars >>

\* case 'clearData': saveSettings(DEFAULT_SETTINGS) resolves
MsgSaveDefaults(p) ==
  /\ procs[p].pc = "msgSaveDefaults"
  /\ stSettings' = Stored(DEFAULT_SETTINGS)
  /\ Respond(p, FALSE, Success)
  /\ Goto(p, "done")
  /\ UNCHANGED << form, analyzerVars, stCache, stHistory, stStatistics, processedTweets,
                  domVars, calls, ghostVars >>

MessageAwaits == {"msgGetSettings", "msgSaveSettings", "msgGetStatistics", "msgGetHistory",
                  "msgClearAll", "msgSaveDefaults"}

\* A chrome.storage.local call of handleMessage rejects: the catch answers
MsgReject(p) ==
  /\ procs[p].pc \in MessageAwaits
  /\ Respond(p, TRUE, [error |-> StorageError])
  /\ Goto(p, "done")
  /\ UNCHANGED << form, analyzerVars, storageVars, processedTweets, domVars, calls, ghostVars >>

InitBackground ==
  /\ AnalyzerIdle
  /\ FreshScript
  /\ added = << >>
  /\ (FreshStorage \/ EarlierSessionStorage)

NextBackground ==
  \/ \E msg \in MessageInputs : OnMessage(msg)
  \/ \E p \in DOMAIN procs : MsgGetSettings(p)
  \/ \E p \in DOMAIN procs : MsgSaveSettings(p)
  \/ \E p \in DOMAIN procs : MsgGetStatistics(p)
  \/ \E p \in DOMAIN procs : MsgGetHistory(p)
  \/ \E p \in DOMAIN procs : MsgClearAll(p)
  \/ \E p \in DOMAIN procs : MsgSaveDefaults(p)
  \/ \E p \in DOMAIN procs : MsgReject(p)

SpecBackground == InitBackground /\ [][NextBackground]_vars

\* The answers given so far to message p
Answers(log, p) == { i \in DOMAIN log : log[i].msg = p }

\* C13: the dispatcher answers every message exactly once (at most once while
\* the handler runs, exactly once when it has finished).  A message of a known
\* type whose storage calls succeed is answered with the result of its
\* operation; a message of any other type is answered with
\* {error: 'Unknown message type: <type>'} and leaves storage unchanged.
C13_EveryMessageAnsweredOnce ==
  [][ \A p \in DOMAIN procs' :
        procs'[p].op = "message" =>
          LET msg == procs'[p].action
              now == Answers(responses', p)
          IN  /\ Cardinality(now) = (IF procs'[p].pc = "done" THEN 1 ELSE 0)
              /\ (now # {} /\ Answers(responses, p) = {}) =>
                   LET answer == responses'[CHOOSE i \in now : TRUE]
                   IN  IF msg.type \notin KnownTypes
                         THEN /\ answer.response = [error |-> UnknownMessageType(msg.type)]
                              /\ UNCHANGED storageVars
                       ELSE IF answer.rejected
                         THEN answer.response = [error |-> StorageError]
                       ELSE CASE msg.type = "getSettings" ->
                                   answer.response = OrDefault(stSettings, DEFAULT_SETTINGS)
                              [] msg.type = "saveSettings" ->
                                   /\ answer.response = Success
                                   /\ stSettings' = Stored(msg.data)
                              [] msg.type = "getStatistics" ->
                                   answer.response = OrDefault(stStatistics, DEFAULT_STATISTICS)
                              [] msg.type = "getHistory" ->
                                   answer.response = OrDefault(stHistory, << >>)
                              [] msg.type = "clearData" ->
                                   /\ answer.response = Success
                                   /\ stSettings' = Stored(DEFAULT_SETTINGS)
    ]_vars

\* C13 witness: a message of an unknown type has been answered, and so has a
\* getSettings message whose storage call succeeded, while the stored cache
\* holds an entry.
C13_Witness ==
  /\ \E i \in DOMAIN responses : procs[responses[i].msg].action.type = "ping"
  /\ \E i \in DOMAIN responses :
       /\ procs[responses[i].msg].action.type = "getSettings"
       /\ ~responses[i].rejected
  /\ stCache # Absent

----------------------------------------------------------------------------
(* Quick likes: XEngagementAssistant.handleLike, called by the click handler *)
(* of an element's quick-action button                                       *)

\* TweetExtractor.getLikeButton: every post element carries a like button
getLikeButton(e) == Dom[e].isTweet

\* TweetExtractor.isLiked: the like button's label shows the liked state
isLiked(e) == getLikeButton(e) /\ Dom[e].id \in liked

\* The UserAction handleLike hands to addHistory; stamp stands for Date.now()
likeAction(stamp, tw, analysis) ==
  [ id |-> stamp, tweetId |-> tw.id, action |-> "like",
    score |-> analysis.score, genre |-> analysis.genre ]

\* A click on the quick-action button of e: handleLike from its entry to its
\* first await (addHistory's getHistory).  The click on the like button puts
\* the post in the liked state.
HandleLike(e) ==
  /\ calls < MaxCalls
  /\ isInjected(e)
  /\ addQuickActionButton(badge[e])
  /\ calls' = calls + 1
  /\ IF ~isLiked(e) /\ getLikeButton(e)
       THEN /\ liked' = liked \cup {Dom[e].id}
            /\ Spawn(Invocation("handleLike", e, extractTweet(e), "historyGet", badge[e],
                                likeAction(calls + 1, extractTweet(e), badge[e])))
       ELSE UNCHANGED << liked, procs >>
  /\ UNCHANGED << remoteVars, analyzerVars, storageVars, processedTweets, injected, badge,
                  ghostVars >>

\* handleLike: getStatistics resolves, storage.updateStatistics is called
LikeStatsGet(p) ==
  /\ procs[p].pc = "likeStatsGet"
  /\ GotoWith(p, "statsMerge",
              [totalLiked |-> OrDefault(stStatistics, DEFAULT_STATISTICS).totalLiked + 1])
  /\ UNCHANGED << remoteVars, analyzerVars, storageVars, processedTweets, domVars, calls, ghostVars >>

\* Settings under which post A scores above the quick-action score
LikeSettings == [DEFAULT_SETTINGS EXCEPT !.keywords = << << "A", "I" >> >>]

\* The analysis of post B that an earlier session cached when the keywords
\* were those of post B
AnalysisB ==
  analyze(extractTweet("e3"),
          [DEFAULT_SETTINGS EXCEPT !.keywords = << << "u8d77", "u696d" >> >>])

\* Storage left by that earlier session, after the keywords were changed
LikeStorage ==
  /\ stCache = Stored(<< [id |-> PostB, analysis |-> AnalysisB] >>)
  /\ stHistory = Absent
  /\ stStatistics = Stored(Merge(DEFAULT_STATISTICS, statisticsUpdates(DEFAULT_STATISTICS, AnalysisB)))
  /\ stSettings = Stored(LikeSettings)
  /\ startTotal = 1

InitLike ==
  /\ tweet = NoTweet
  /\ settings = LikeSettings
  /\ result = NoResult
  /\ FreshScript
  /\ added = << >>
  /\ LikeStorage

NextLike ==
  \/ \E e \in Elements : ProcessNode(e)
  \/ \E p \in DOMAIN procs : GetCached(p)
  \/ \E p \in DOMAIN procs : CacheGet(p)
  \/ \E p \in DOMAIN procs : CacheSet(p)
  \/ \E p \in DOMAIN procs : StatsGet(p)
  \/ \E p \in DOMAIN procs : StatsMerge(p)
  \/ \E p \in DOMAIN procs : StatsSet(p)
  \/ \E p \in DOMAIN procs : Inject(p)
  \/ \E e \in Elements : HandleLike(e)
  \/ \E p \in DOMAIN procs : HistoryGet(p)
  \/ \E p \in DOMAIN procs : HistorySet(p)
  \/ \E p \in DOMAIN procs : LikeStatsGet(p)

SpecLike == InitLike /\ [][NextLike]_vars

\* The likes performed: handleLike invocations that clicked the like button
LikesPerformed == { p \in DOMAIN procs : procs[p].op = "handleLike" }

\* The 'like' entries of a history
LikeEntries(history) == { i \in DOMAIN history : history[i].action = "like" }

\* C14: after any set of handleLike invocations (on posts not yet liked, with
\* a like button) and processNode invocations has completed, in any
\* interleaving and with fewer than 1000 actions in total, the stored
\* statistics.totalLiked equals the number of 'like' entries in the stored
\* history, and both equal the number of likes performed.
C14_LikesAreCounted ==
  AllCompleted =>
    LET history == OrDefault(stHistory, << >>)
        stats   == OrDefault(stStatistics, DEFAULT_STATISTICS)
    IN  /\ stats.totalLiked = Cardinality(LikeEntries(history))
        /\ Cardinality(LikeEntries(history)) = Cardinality(LikesPerformed)

----------------------------------------------------------------------------
(* The content script running while the background worker handles a          *)
(* clearData message                                                         *)

ClearDataMessage == [type |-> "clearData", data |-> NoData]

\* Either the storage of SpecLike, or nothing stored but the settings
InitClear ==
  /\ tweet = NoTweet
  /\ settings = LikeSettings
  /\ result = NoResult
  /\ FreshScript
  /\ added = << >>
  /\ \/ LikeStorage
     \/ /\ stCache = Absent
        /\ stHistory = Absent
        /\ stStatistics = Absent
        /\ stSettings = Stored(LikeSettings)
        /\ startTotal = 0

\* The initial scan hands each of two elements to processNode once, a
\* quick-action button is clicked while its post is not liked, and one
\* clearData message is sent
NextClear ==
  \/ \E e \in {"e1", "e3"} \ observed : ProcessNode(e)
  \/ \E p \in DOMAIN procs : GetCached(p)
  \/ \E p \in DOMAIN procs : CacheGet(p)
  \/ \E p \in DOMAIN procs : CacheSet(p)
  \/ \E p \in DOMAIN procs : StatsGet(p)
  \/ \E p \in DOMAIN procs : StatsMerge(p)
  \/ \E p \in DOMAIN procs : StatsSet(p)
  \/ \E p \in DOMAIN procs : Inject(p)
  \/ \E e \in Elements : ~isLiked(e) /\ HandleLike(e)
  \/ \E p \in DOMAIN procs : HistoryGet(p)
  \/ \E p \in DOMAIN procs : HistorySet(p)
  \/ \E p \in DOMAIN procs : LikeStatsGet(p)
  \/ (\A p \in DOMAIN procs : ~IsMessage(p)) /\ OnMessage(ClearDataMessage)
  \/ \E p \in DOMAIN procs : MsgClearAll(p)
  \/ \E p \in DOMAIN procs : MsgSaveDefaults(p)

SpecClear == InitClear /\ [][NextClear]_vars

\* The stored settings are the defaults and nothing else is stored
StorageIsClear ==
  /\ stSettings = Stored(DEFAULT_SETTINGS)
  /\ OrDefault(stHistory, << >>) = << >>
  /\ OrDefault(stStatistics, DEFAULT_STATISTICS) = DEFAULT_STATISTICS
  /\ OrDefault(stCache, << >>) = << >>

\* C12: when a 'clearData' message is answered {success: true}, the stored
\* settings equal DEFAULT_SETTINGS and history, statistics and cache are
\* empty/default, whatever content-script storage operations (cacheAnalysis,
\* addHistory, updateStatistics) were in flight.
C12_ClearLeavesNothing ==
  [][ \A p \in DOMAIN procs :
        ( /\ IsMessage(p)
          /\ procs[p].action.type = "clearData"
          /\ procs[p].pc # "done"
          /\ procs'[p].pc = "done"
          /\ responses'[Len(responses')] = [msg |-> p, rejected |-> FALSE, response |-> Success] )
        => StorageIsClear'
    ]_vars

RECURSIVE SumCounts(_, _)
SumCounts(distribution, genres) ==
  IF genres = {} THEN 0
  ELSE LET g == CHOOSE x \in genres : TRUE
       IN  distribution[g] + SumCounts(distribution, genres \ {g})

\* C18: in every reachable state of the stored statistics, under any
\* interleaving of processNode, handleLike and clearAll storage steps, the sum
\* of the genreDistribution counts equals totalAnalyzed.
C18_DistributionSumsToTotal ==
  LET stats == OrDefault(stStatistics, DEFAULT_STATISTICS)
  IN  SumCounts(stats.genreDistribution, AllGenres) = stats.totalAnalyzed

\* C18 witness: a clearData message was answered, a handleLike and a
\* processNode that wrote statistics have completed, and the stored statistics
\* count two analyses and one like.
C18_Witness ==
  /\ \E p \in DOMAIN procs : IsMessage(p) /\ procs[p].pc = "done"
  /\ \E p \in DOMAIN procs : procs[p].op = "handleLike" /\ procs[p].pc = "done"
  /\ \E p \in DOMAIN procs : procs[p].op = "processNode" /\ procs[p].pc = "done"
                             /\ procs[p].local # << >>
  /\ OrDefault(stStatistics, DEFAULT_STATISTICS).totalAnalyzed = 2
  /\ OrDefault(stStatistics, DEFAULT_STATISTICS).totalLiked = 1

----------------------------------------------------------------------------
(* The cache after concurrent processNode invocations (checked under Spec) *)

\* C15: when concurrent processNode invocations for distinct uncached posts
\* (fewer than 500) have all completed, getCachedAnalysis returns, for each of
\* those post ids, the analysis that was computed for it.
C15_ComputedIsCached ==
  AllCompleted =>
    \A p \in DOMAIN procs :
      (\E i \in DOMAIN analyzeLog : analyzeLog[i] = procs[p].tweet.id) =>
        Lookup(OrDefault(stCache, << >>), procs[p].tweet.id) = procs[p].analysis

----------------------------------------------------------------------------
(* The popup: text conversions between the stored settings and the inputs *)

\* Array.prototype.join
RECURSIVE Join(_, _)
Join(list, sep) ==
  IF list = << >> THEN << >>
  ELSE IF Len(list) = 1 THEN list[1]
  ELSE list[1] \o sep \o Join(Tail(list), sep)

\* String.prototype.split with a one-character separator
RECURSIVE Split(_, _)
Split(s, c) ==
  IF \A i \in 1..Len(s) : s[i] # c THEN << s >>
  ELSE LET i == CHOOSE k \in 1..Len(s) : s[k] = c /\ \A j \in 1..(k - 1) : s[j] # c
       IN  << SubSeq(s, 1, i - 1) >> \o Split(SubSeq(s, i + 1, Len(s)), c)

\* White space that trim and parseInt skip (space, tab, ideographic space)
WhiteSpace == {" ", "\t", "u3000"}

\* String.prototype.trim
RECURSIVE Trim(_)
Trim(s) ==
  IF s = << >> THEN s
  ELSE IF s[1] \in WhiteSpace THEN Trim(Tail(s))
  ELSE IF s[Len(s)] \in WhiteSpace THEN Trim(SubSeq(s, 1, Len(s) - 1))
  ELSE s

\* .split(',').map(s => s.trim()).filter(Boolean)
ParseList(text) ==
  LET parts == Split(text, ",")
      trimmed == [i \in 1..Len(parts) |-> Trim(parts[i])]
  IN  SelectSeq(trimmed, LAMBDA x : x # << >>)

Digits == << "0", "1", "2", "3", "4", "5", "6", "7", "8", "9" >>
IsDigit(c) == \E d \in 1..10 : Digits[d] = c
DigitValue(c) == (CHOOSE d \in 1..10 : Digits[d] = c) - 1

\* Number.prototype.toString for an integer
RECURSIVE NumberToString(_)
NumberToString(n) ==
  IF n < 0 THEN << "-" >> \o NumberToString(0 - n)
  ELSE IF n < 10 THEN << Digits[n + 1] >>
  ELSE NumberToString(n \div 10) \o << Digits[(n % 10) + 1] >>

NaN == [nan |-> TRUE]

\* The value of the longest prefix of decimal digits, or NaN when there is none
RECURSIVE ParseDigits(_, _, _)
ParseDigits(s, acc, seen) ==
  IF s # << >> /\ IsDigit(s[1]) THEN ParseDigits(Tail(s), 10 * acc + DigitValue(s[1]), TRUE)
  ELSE IF seen THEN [nan |-> FALSE, value |-> acc]
  ELSE NaN

\* parseInt(text): leading white space, an optional sign, decimal digits
parseInt(text) ==
  LET s == Trim(text)
  IN  IF s # << >> /\ s[1] = "-"
        THEN LET r == ParseDigits(Tail(s), 0, FALSE)
             IN  IF r = NaN THEN NaN ELSE [nan |-> FALSE, value |-> 0 - r.value]
      ELSE IF s # << >> /\ s[1] = "+" THEN ParseDigits(Tail(s), 0, FALSE)
      ELSE ParseDigits(s, 0, FALSE)

\* parseInt(...) || fallback: NaN and 0 are falsy
OrNumber(parsed, fallback) ==
  IF parsed = NaN THEN fallback
  ELSE IF parsed.value = 0 THEN fallback
  ELSE parsed.value

\* The characters of each genre name
GenreSpelling ==
  [ g \in AllGenres |->
      CASE g = "AI_dev"      -> << "A", "I", "_", "d", "e", "v" >>
        [] g = "programming" -> << "p", "r", "o", "g", "r", "a", "m", "m", "i", "n", "g" >>
        [] g = "technology"  -> << "t", "e", "c", "h", "n", "o", "l", "o", "g", "y" >>
        [] g = "marketing"   -> << "m", "a", "r", "k", "e", "t", "i", "n", "g" >>
        [] g = "business"    -> << "b", "u", "s", "i", "n", "e", "s", "s" >>
        [] g = "other"       -> << "o", "t", "h", "e", "r" >>
        [] g = "spam"        -> << "s", "p", "a", "m" >> ]

\* The genre a text names, or "unknown" for any other text
GenreNamed(text) ==
  IF \E g \in AllGenres : GenreSpelling[g] = text
    THEN CHOOSE g \in AllGenres : GenreSpelling[g] = text
    ELSE "unknown"

Comma == << ",", " " >>

\* loadSettings: the values it puts in the five inputs
formOf(s) ==
  [ targetGenres    |-> Join([i \in 1..Len(s.targetGenres) |-> GenreSpelling[s.targetGenres[i]]], Comma),
    keywords        |-> Join(s.keywords, Comma),
    excludeKeywords |-> Join(s.excludeKeywords, Comma),
    minScore        |-> NumberToString(s.minScore),
    minFollowers    |-> NumberToString(s.minFollowers) ]

DefaultMinScore == 70
DefaultMinFollowers == 50

\* saveSettings: the UserSettings it builds from the inputs
settingsOf(f) ==
  [ targetGenres    |-> LET names == ParseList(f.targetGenres)
                        IN  [i \in 1..Len(names) |-> GenreNamed(names[i])],
    keywords        |-> ParseList(f.keywords),
    excludeKeywords |-> ParseList(f.excludeKeywords),
    minScore        |-> OrNumber(parseInt(f.minScore), DefaultMinScore),
    minFollowers    |-> OrNumber(parseInt(f.minFollowers), DefaultMinFollowers),
    language        |-> "ja",
    aiProvider      |-> "local" ]

----------------------------------------------------------------------------
(* The popup: initializePopup, the Save button, and the reload of the page   *)

EmptyForm ==
  [ targetGenres |-> << >>, keywords |-> << >>, excludeKeywords |-> << >>,
    minScore |-> << >>, minFollowers |-> << >> ]

\* The popup document has loaded: initializePopup runs to its first await
OpenPopup ==
  /\ calls < MaxCalls
  /\ form = NoForm
  /\ \A p \in DOMAIN procs : procs[p].op # "popup"
  /\ form' = EmptyForm
  /\ calls' = calls + 1
  /\ Spawn(Invocation("popup", NoElement, NoTweet, "popupGetStatistics", NoResult, NoAction))
  /\ UNCHANGED << responses, analyzerVars, storageVars, processedTweets, domVars, ghostVars >>

\* loadStatistics: getStatistics resolves and the numbers are shown
PopupLoadStatistics(p) ==
  /\ procs[p].pc = "popupGetStatistics"
  /\ Goto(p, "popupGetSettings")
  /\ UNCHANGED << remoteVars, analyzerVars, storageVars, processedTweets, domVars, calls, ghostVars >>

\* loadSettings: getSettings resolves, the inputs are filled and
\* setupEventListeners runs; local keeps the settings that were read
PopupLoadSettings(p) ==
  /\ procs[p].pc = "popupGetSettings"
  /\ form' = formOf(OrDefault(stSettings, DEFAULT_SETTINGS))
  /\ GotoWith(p, "done", OrDefault(stSettings, DEFAULT_SETTINGS))
  /\ UNCHANGED << responses, analyzerVars, storageVars, processedTweets, domVars, calls, ghostVars >>

\* setupEventListeners has run
PopupReady == \E p \in DOMAIN procs : procs[p].op = "popup" /\ procs[p].pc = "done"

\* A click on Save: saveSettings from its entry to its await of storage.saveSettings
PopupSaveSettings ==
  /\ calls < MaxCalls
  /\ PopupReady
  /\ calls' = calls + 1
  /\ procs' = [p \in DOMAIN procs \cup {calls + 1} |->
                 IF p = calls + 1
                   THEN [Invocation("saveSettings", NoElement, NoTweet, "popupSaveSet",
                                    NoResult, NoAction) EXCEPT !.local = settingsOf(form)]
                   ELSE procs[p]]
  /\ UNCHANGED << remoteVars, analyzerVars, storageVars, processedTweets, domVars, ghostVars >>

\* saveSettings: the set resolves, the success message is shown and
\* chrome.tabs.query is called
PopupSaveSet(p) ==
  /\ procs[p].pc = "popupSaveSet"
  /\ stSettings' = Stored(procs[p].local)
  /\ Goto(p, "popupTabsQuery")
  /\ UNCHANGED << remoteVars, analyzerVars, stCache, stHistory, stStatistics, processedTweets,
                  domVars, calls, ghostVars >>

ContentScriptOps == {"processNode", "handleLike", "initialize"}

\* saveSettings: the tabs.query callback reloads the active tab.  If that tab
\* is the page, its content script ends and a new instance starts initialize,
\* which waits for getSettings; the ghost logs start again with the session.
PopupReload(p) ==
  /\ procs[p].pc = "popupTabsQuery"
  /\ \E pageIsActive \in BOOLEAN :
       IF pageIsActive
         THEN /\ procs' = [q \in DOMAIN procs \cup {calls + 1} |->
                             IF q = calls + 1
                               THEN Invocation("initialize", NoElement, NoTweet,
                                               "initGetSettings", NoResult, NoAction)
                             ELSE IF q = p THEN [procs[q] EXCEPT !.pc = "done"]
                             ELSE IF procs[q].op \in ContentScriptOps /\ Active(q)
                               THEN [procs[q] EXCEPT !.pc = "unloaded"]
                             ELSE procs[q]]
              /\ calls' = calls + 1
              /\ processedTweets' = {}
              /\ injected' = {}
              /\ badge' = [e \in Elements |-> NoResult]
              /\ analyzeLog' = << >>
              /\ statLog' = << >>
              /\ deduped' = {}
              /\ observed' = {}
              /\ startTotal' = OrDefault(stStatistics, DEFAULT_STATISTICS).totalAnalyzed
         ELSE /\ Goto(p, "done")
              /\ UNCHANGED << calls, processedTweets, injected, badge, analyzeLog, statLog,
                              deduped, observed, startTotal >>
  /\ UNCHANGED << remoteVars, analyzerVars, storageVars, liked, added >>

\* initialize: getSettings resolves, the analyzer is built with the settings,
\* the observer starts and processExistingTweets runs
Initialize(p) ==
  /\ procs[p].pc = "initGetSettings"
  /\ settings' = OrDefault(stSettings, DEFAULT_SETTINGS)
  /\ Goto(p, "done")
  /\ UNCHANGED << remoteVars, tweet, result, storageVars, processedTweets, domVars, calls,
                  ghostVars >>

\* The content script has started observing
Initialized == \A p \in DOMAIN procs : procs[p].op = "initialize" => ~Active(p)

\* Stored settings: list entries are non-empty, without commas or surrounding
\* blanks; minScore is in 0..100 and minFollowers is not negative
StoredSettingsInputs ==
  LET base ==
        { [ targetGenres    |-> g,
            keywords        |-> k,
            excludeKeywords |-> x,
            minScore        |-> m,
            minFollowers    |-> f,
            language        |-> l,
            aiProvider      |-> a ] :
            g \in { DEFAULT_SETTINGS.targetGenres, << >> },
            k \in { DefaultKeywords, << >>,
                    << << "A", "I" >>, << "d", "e", "e", "p", " ", "l", "e", "a", "r", "n" >> >> },
            x \in { DefaultExcludeKeywords },
            m \in { 0, 7, 70, 100 },
            f \in { 0, 50, 1200 },
            l \in { "ja", "en" },
            a \in { "local", "openai" } }
  IN  base \cup { [ targetGenres |-> s.targetGenres, keywords |-> s.keywords,
                    excludeKeywords |-> s.excludeKeywords, minScore |-> s.minScore,
                    minFollowers |-> s.minFollowers, language |-> s.language,
                    aiProvider |-> s.aiProvider,
                    apiKey |-> << "s", "k", "-", "1" >> ] : s \in base }

InitPopup ==
  /\ tweet = NoTweet
  /\ result = NoResult
  /\ FreshScript
  /\ added = << >>
  /\ stCache = Absent
  /\ stHistory = Absent
  /\ stStatistics = Absent
  /\ startTotal = 0
  /\ \E s \in StoredSettingsInputs :
       /\ stSettings = Stored(s)
       /\ settings = s

NextPopup ==
  \/ OpenPopup
  \/ \E p \in DOMAIN procs : PopupLoadStatistics(p)
  \/ \E p \in DOMAIN procs : PopupLoadSettings(p)
  \/ PopupSaveSettings
  \/ \E p \in DOMAIN procs : PopupSaveSet(p)
  \/ \E p \in DOMAIN procs : PopupReload(p)
  \/ \E p \in DOMAIN procs : Initialize(p)

SpecPopup == InitPopup /\ [][NextPopup]_vars

\* C17: loadSettings followed by saveSettings without editing any input is a
\* round trip: for stored settings whose list entries are non-empty strings
\* without commas or surrounding blanks, minScore in 0..100 and minFollowers
\* >= 0, the settings stored after the save equal the settings that were
\* loaded (targetGenres, keywords, excludeKeywords, minScore, minFollowers,
\* language, aiProvider and apiKey).
C17_LoadSaveRoundTrip ==
  \A p, q \in DOMAIN procs :
    ( /\ procs[q].op = "popup" /\ procs[q].pc = "done"
      /\ procs[p].op = "saveSettings" /\ procs[p].pc \in {"popupTabsQuery", "done"} )
    => stSettings = Stored(procs[q].local)

----------------------------------------------------------------------------
(* The content script of one page session, the popup in which the settings   *)
(* are edited and saved, and the page session after the reload               *)

\* Text typed into the keywords input
KeywordEdits == { << "u8d77", "u696d", ",", " ", "A", "I" >> }

\* The user replaces the text of the keywords input
EditKeywords(text) ==
  /\ PopupReady
  /\ form.keywords # text
  /\ form' = [form EXCEPT !.keywords = text]
  /\ UNCHANGED << responses, analyzerVars, storageVars, processedTweets, domVars, procs, calls,
                  ghostVars >>

InitReload ==
  /\ AnalyzerIdle
  /\ FreshScript
  /\ added = << >>
  /\ (FreshStorage \/ EarlierSessionStorage)

NextReload ==
  \/ \E e \in {"e1", "e3"} \ observed : Initialized /\ ProcessNode(e)
  \/ \E p \in DOMAIN procs : GetCached(p)
  \/ \E p \in DOMAIN procs : CacheGet(p)
  \/ \E p \in DOMAIN procs : CacheSet(p)
  \/ \E p \in DOMAIN procs : StatsGet(p)
  \/ \E p \in DOMAIN procs : StatsMerge(p)
  \/ \E p \in DOMAIN procs : StatsSet(p)
  \/ \E p \in DOMAIN procs : Inject(p)
  \/ OpenPopup
  \/ \E p \in DOMAIN procs : PopupLoadStatistics(p)
  \/ \E p \in DOMAIN procs : PopupLoadSettings(p)
  \/ \E text \in KeywordEdits : EditKeywords(text)
  \/ PopupSaveSettings
  \/ \E p \in DOMAIN procs : PopupSaveSet(p)
  \/ \E p \in DOMAIN procs : PopupReload(p)
  \/ \E p \in DOMAIN procs : Initialize(p)

SpecReload == InitReload /\ [][NextReload]_vars

\* The page session that runs now began with a reload that followed save p
ReloadedAfter(p) ==
  /\ procs[p].op = "saveSettings"
  /\ procs[p].pc = "done"
  /\ \E q \in DOMAIN procs :
       /\ q > p
       /\ procs[q].op = "initialize"
       /\ procs[q].pc = "done"
       /\ \A r \in DOMAIN procs : procs[r].op = "initialize" => r <= q
  /\ settings = procs[p].local

\* C16: after the popup has saved new settings and the page has reloaded (a
\* new content-script instance), the analysis injected for every post equals
\* analyze under the new settings, posts cached before the save included.
C16_ReloadShowsNewSettings ==
  \A p \in DOMAIN procs :
    ReloadedAfter(p) =>
      \A e \in injected : badge[e] = analyze(extractTweet(e), procs[p].local)

----------------------------------------------------------------------------
(* Every observed post element is badged (checked under Spec) *)

\* C19: every post element that appears while the observer is running and has
\* an extractable id and non-empty content is eventually given a score badge
\* and marked injected, provided the storage calls succeed - also a second
\* element that shows a post id already processed in the same page session.
\* Stated for the states in which every invocation has finished.
C19_ObservedIsBadged ==
  (Idle /\ \A p \in DOMAIN procs : procs[p].pc # "failed") =>
    \A e \in observed :
      (isTweetElement(e) /\ extractTweet(e) # NoResult) =>
        (isInjected(e) /\ badge[e] # NoResult)

====
